---- MODULE Spec2Model ----
(***************************************************************************)
(* Model of the cutting-parameter bot (bot.py): the conversation state     *)
(* machine registered in main(), its handlers, the catalog lookup and the  *)
(* per-user session dictionary (context.user_data).                        *)
(*                                                                         *)
(* The catalog keys of the source are Russian words; they are written here *)
(* in Latin transliteration:                                               *)
(*   stal, cvetnoj_metall                 (materials: steel, non-ferrous)  *)
(*   frezerovanie, tochenie, sverlenie    (milling, turning, drilling)     *)
(*   monolitnaya, s_plastinami            (milling tool types)             *)
(*   prohodnoj, kanavochnyj               (turning: profiling, grooving)   *)
(*   monolitnoe, so_smennymi_plastinami   (drilling: monolithic, indexable)*)
(*   cilindricheskaya, sfericheskaya, torcevaya, pazovaya   (mill subtypes)*)
(*   hss, hss-co, tverdyj_splav, karbid                     (drill subtypes)*)
(*   radius_plastiny, shirina_plastiny    (insert radius, insert width)    *)
(*   skorost, podacha, glubina            (speed, feed, depth ranges)      *)
(*                                                                         *)
(* Every quantity (mm, m/min, mm/rev) is an integer number of thousandths. *)
(***************************************************************************)
EXTENDS Integers, Sequences, FiniteSets, TLC

VARIABLES
    state,      \* conversation key (chat, user) -> state of the ConversationHandler
    user_data,  \* user -> the dictionary context.user_data of that user
    reply,      \* what the last step answered
    sqrt_call,  \* how math.sqrt was called in the last step
    result,     \* the values computed in the last step
    shown,      \* the value lines of the result message sent in the last step
    last,       \* the last step: conversation, text, state it was delivered in
    rejects     \* conversation -> number of consecutive re-prompts

vars == <<state, user_data, reply, sqrt_call, result, shown, last, rejects>>

(***************************************************************************)
(* Bounds                                                                  *)
(***************************************************************************)
MaxRejects == 2

(***************************************************************************)
(* States of the conversation (range(9)) and ConversationHandler.END       *)
(***************************************************************************)
MATERIAL == 0
OPERATION == 1
TOOL_TYPE == 2
TOOL_SUBTYPE == 3
DIAMETER == 4
NUMBER_OF_TEETH == 5
DEPTH_OF_CUT == 6
RADIUS == 7
GROOVE_WIDTH == 8
END == -1

AwaitStates == {MATERIAL, OPERATION, TOOL_TYPE, TOOL_SUBTYPE, DIAMETER,
                NUMBER_OF_TEETH, DEPTH_OF_CUT, RADIUS, GROOVE_WIDTH}

Scale == 1000

(***************************************************************************)
(* The catalog                                                             *)
(***************************************************************************)
Entry(s1, s2, f1, f2, d1, d2) ==
    [skorost |-> <<s1 * Scale, s2 * Scale>>, podacha |-> <<f1, f2>>,
     glubina |-> <<d1 * Scale, d2 * Scale>>]

EntryNoDepth(s1, s2, f1, f2) ==
    [skorost |-> <<s1 * Scale, s2 * Scale>>, podacha |-> <<f1, f2>>]

cutting_parameters ==
    [stal |->
        [frezerovanie |->
            [monolitnaya |->
                [cilindricheskaya |-> Entry(80, 120, 100, 300, 1, 4),
                 sfericheskaya |-> Entry(70, 110, 80, 250, 1, 3)],
             s_plastinami |->
                [torcevaya |-> Entry(100, 150, 150, 350, 1, 5),
                 pazovaya |-> Entry(90, 140, 100, 300, 1, 4)]],
         tochenie |->
            [prohodnoj |->
                [radius_plastiny |->
                    (400 :> Entry(70, 100, 100, 300, 1, 5)) @@
                    (800 :> Entry(80, 110, 150, 350, 1, 5)) @@
                    (1200 :> Entry(90, 120, 200, 400, 1, 5))],
             kanavochnyj |->
                [shirina_plastiny |->
                    (2000 :> EntryNoDepth(40, 60, 50, 150)) @@
                    (3000 :> EntryNoDepth(50, 70, 80, 200)) @@
                    (4000 :> EntryNoDepth(60, 80, 100, 250))]],
         sverlenie |->
            [monolitnoe |->
                ("hss" :> Entry(30, 50, 50, 120, 1, 8)) @@
                ("hss-co" :> Entry(40, 60, 80, 150, 1, 10)) @@
                ("tverdyj_splav" :> Entry(70, 100, 100, 200, 1, 12)),
             so_smennymi_plastinami |->
                [karbid |-> Entry(70, 100, 100, 200, 1, 12)]]],
     cvetnoj_metall |->
        [frezerovanie |->
            [monolitnaya |->
                [cilindricheskaya |-> Entry(150, 200, 200, 400, 2, 6),
                 sfericheskaya |-> Entry(140, 180, 150, 350, 2, 5)],
             s_plastinami |->
                [torcevaya |-> Entry(180, 250, 250, 450, 2, 8),
                 pazovaya |-> Entry(160, 220, 200, 400, 2, 6)]],
         tochenie |->
            [prohodnoj |->
                [radius_plastiny |->
                    (400 :> Entry(120, 150, 150, 300, 2, 6)) @@
                    (800 :> Entry(130, 160, 200, 350, 2, 6)) @@
                    (1200 :> Entry(140, 180, 250, 400, 2, 6))],
             kanavochnyj |->
                [shirina_plastiny |->
                    (2000 :> EntryNoDepth(80, 120, 100, 200)) @@
                    (3000 :> EntryNoDepth(90, 130, 150, 250)) @@
                    (4000 :> EntryNoDepth(100, 140, 200, 300))]],
         sverlenie |->
            [monolitnoe |->
                ("hss" :> Entry(60, 80, 100, 200, 2, 10)) @@
                ("hss-co" :> Entry(70, 90, 150, 250, 2, 12)) @@
                ("tverdyj_splav" :> Entry(100, 150, 200, 300, 2, 15)),
             so_smennymi_plastinami |->
                [karbid |-> Entry(100, 150, 200, 300, 2, 15)]]]]

(***************************************************************************)
(* Text: str.lower(), str.replace(',', '.'), float(), int()                *)
(***************************************************************************)
Char(s, i) == SubSeq(s, i, i)

UpperLetters == "ABCDEFGHIJKLMNOPQRSTUVWXYZ"
LowerLetters == "abcdefghijklmnopqrstuvwxyz"
DecDigits == "0123456789"

LowerChar(ch) ==
    IF \E k \in 1..26 : Char(UpperLetters, k) = ch
    THEN Char(LowerLetters, CHOOSE k \in 1..26 : Char(UpperLetters, k) = ch)
    ELSE ch

RECURSIVE Lower(_)
Lower(s) == IF Len(s) = 0 THEN "" ELSE LowerChar(Char(s, 1)) \o Lower(Tail(s))

RECURSIVE Replace(_, _, _)
Replace(s, old, new) ==
    IF Len(s) = 0 THEN ""
    ELSE (IF Char(s, 1) = old THEN new ELSE Char(s, 1)) \o Replace(Tail(s), old, new)

IsDigit(ch) == \E d \in 1..10 : Char(DecDigits, d) = ch
DigitVal(ch) == (CHOOSE d \in 1..10 : Char(DecDigits, d) = ch) - 1

AllDigits(s) == \A i \in 1..Len(s) : IsDigit(Char(s, i))

RECURSIVE ToNat(_)
ToNat(s) == IF Len(s) = 0 THEN 0
            ELSE ToNat(SubSeq(s, 1, Len(s) - 1)) * 10 + DigitVal(Char(s, Len(s)))

HasSign(s) == Len(s) > 0 /\ Char(s, 1) \in {"-", "+"}
Unsigned(s) == IF HasSign(s) THEN Tail(s) ELSE s
Signed(s, v) == IF Len(s) > 0 /\ Char(s, 1) = "-" THEN 0 - v ELSE v

\* float(s) for plain decimal literals: [ok |-> FALSE] stands for ValueError.
\* The value is in thousandths; literals carry at most three fraction digits.
Float(s) ==
    LET body == Unsigned(s)
        dots == {i \in 1..Len(body) : Char(body, i) = "."}
        p    == IF dots = {} THEN Len(body) + 1 ELSE CHOOSE i \in dots : TRUE
        ip   == SubSeq(body, 1, p - 1)
        fp   == SubSeq(body, p + 1, Len(body))
        fp3  == SubSeq(fp \o "000", 1, 3)
    IN IF Cardinality(dots) <= 1 /\ AllDigits(ip) /\ AllDigits(fp)
          /\ Len(ip) + Len(fp) > 0 /\ Len(fp) <= 3
       THEN [ok |-> TRUE, v |-> Signed(s, ToNat(ip) * Scale + ToNat(fp3))]
       ELSE [ok |-> FALSE, v |-> 0]

\* int(s) for plain decimal literals: [ok |-> FALSE] stands for ValueError.
Int_(s) ==
    LET body == Unsigned(s)
    IN IF Len(body) > 0 /\ AllDigits(body)
       THEN [ok |-> TRUE, v |-> Signed(s, ToNat(body))]
       ELSE [ok |-> FALSE, v |-> 0]

(***************************************************************************)
(* context.user_data: a dictionary, modelled as a function whose domain is *)
(* the set of keys present                                                 *)
(***************************************************************************)
EmptyDict == [k \in {} |-> 0]

\* user_data[k] = v
Put(ud, k, v) == [x \in DOMAIN ud \cup {k} |-> IF x = k THEN v ELSE ud[x]]

Has(ud, k) == k \in DOMAIN ud

\* truth value of user_data.get(k) for a text field and for a number field
TruthyStr(ud, k) == Has(ud, k) /\ ud[k] # ""
TruthyNum(ud, k) == Has(ud, k) /\ ud[k] # 0

\* str(x) of a float with at most three decimals: "0.4", "1.2", "2.0"
DigitStr(d) == SubSeq("0123456789", d + 1, d + 1)

RECURSIVE NatStr(_)
NatStr(n) == IF n < 10 THEN DigitStr(n) ELSE NatStr(n \div 10) \o DigitStr(n % 10)

\* a text of the digits of the whole part only
FloatStr_whole(x) ==
    (IF x < 0 THEN "-" ELSE "") \o NatStr((IF x < 0 THEN 0 - x ELSE x) \div Scale)

FloatStr(x) ==
    LET a == IF x < 0 THEN 0 - x ELSE x
        f == a % Scale
        frac == IF f % 100 = 0 THEN DigitStr(f \div 100)
                ELSE IF f % 10 = 0 THEN DigitStr(f \div 100) \o DigitStr((f \div 10) % 10)
                ELSE DigitStr(f \div 100) \o DigitStr((f \div 10) % 10) \o DigitStr(f % 10)
    IN (IF x < 0 THEN "-" ELSE "") \o NatStr(a \div Scale) \o "." \o frac

\* the radius buttons tool_type offers: [str(radius)] for the catalog's radii
radius_keyboard(m, o, t) ==
    {FloatStr(k) : k \in DOMAIN cutting_parameters[m][o][t]["radius_plastiny"]}

(***************************************************************************)
(* get_cutting_parameters                                                  *)
(***************************************************************************)
NoParams == [found |-> FALSE, entry |-> EntryNoDepth(0, 0, 0, 0)]
Found(e) == [found |-> TRUE, entry |-> e]

\* a lookup that falls back to some entry of the table on a miss
DictGet_fallback(d, k) ==
    IF k \in DOMAIN d THEN Found(d[k]) ELSE Found(d[CHOOSE x \in DOMAIN d : TRUE])

\* dict.get(k, None)
DictGet(d, k) == IF k \in DOMAIN d THEN Found(d[k]) ELSE NoParams

\* cutting_parameters[material][operation][tool_type] does not raise KeyError
HasPath(m, o, t) ==
    /\ m \in DOMAIN cutting_parameters
    /\ o \in DOMAIN cutting_parameters[m]
    /\ t \in DOMAIN cutting_parameters[m][o]

get_cutting_parameters(ud) ==
    IF ~TruthyStr(ud, "material") \/ ~TruthyStr(ud, "operation")
       \/ ~TruthyStr(ud, "tool_type")
    THEN NoParams
    ELSE
      LET m == ud["material"]
          o == ud["operation"]
          t == ud["tool_type"]
      IN CASE o = "frezerovanie" ->
                IF t \in {"monolitnaya", "s_plastinami"} /\ TruthyStr(ud, "tool_subtype")
                THEN IF HasPath(m, o, t)
                     THEN DictGet(cutting_parameters[m][o][t], ud["tool_subtype"])
                     ELSE NoParams
                ELSE NoParams
           [] o = "tochenie" ->
                IF t = "prohodnoj" /\ TruthyNum(ud, "radius")
                THEN IF HasPath(m, o, t)
                     THEN DictGet(cutting_parameters[m][o][t]["radius_plastiny"], ud["radius"])
                     ELSE NoParams
                ELSE IF t = "kanavochnyj" /\ TruthyNum(ud, "groove_width")
                THEN IF HasPath(m, o, t)
                     THEN DictGet(cutting_parameters[m][o][t]["shirina_plastiny"],
                                  ud["groove_width"])
                     ELSE NoParams
                ELSE NoParams
           [] o = "sverlenie" ->
                IF t = "monolitnoe" /\ TruthyStr(ud, "tool_subtype")
                THEN IF HasPath(m, o, t)
                     THEN DictGet(cutting_parameters[m][o][t], ud["tool_subtype"])
                     ELSE NoParams
                ELSE IF t = "so_smennymi_plastinami"
                THEN IF HasPath(m, o, t)
                     THEN DictGet(cutting_parameters[m][o][t], "karbid")
                     ELSE NoParams
                ELSE NoParams
           [] OTHER -> NoParams

(***************************************************************************)
(* Calculations                                                            *)
(***************************************************************************)
RECURSIVE SqrtIter(_, _, _)
SqrtIter(n, lo, hi) ==
    IF hi - lo <= 1 THEN lo
    ELSE LET mid == (lo + hi) \div 2
         IN IF mid * mid <= n THEN SqrtIter(n, mid, hi) ELSE SqrtIter(n, lo, mid)

\* math.sqrt(x): ValueError (math domain error) on a negative argument
math_sqrt(x) ==
    IF x < 0 THEN [raises |-> TRUE, v |-> 0]
    ELSE [raises |-> FALSE, v |-> SqrtIter(x, 0, 46341)]

\* sqrt: "none" (math.sqrt not called), "nonneg" or "negative" (its argument)
calculate_cutting_width(diameter, depth_of_cut, tool_subtype) ==
    IF tool_subtype = "cilindricheskaya"
    THEN [raises |-> FALSE, sqrt |-> "none", defined |-> TRUE, v |-> diameter \div 2]
    ELSE IF tool_subtype = "sfericheskaya"
    THEN LET r == math_sqrt(depth_of_cut * (diameter - depth_of_cut))
         IN [raises |-> r.raises,
             sqrt |-> IF r.raises THEN "negative" ELSE "nonneg",
             defined |-> ~r.raises, v |-> 2 * r.v]
    ELSE [raises |-> FALSE, sqrt |-> "none", defined |-> FALSE, v |-> 0]

\* Python computes 0.3 * diameter and 0.7 * diameter in binary floating point.
\* For the whole-millimetre diameters below (in thousandths) the product is
\* the double just under the decimal value (0.3 * 3.0 = 0.8999999999999999,
\* 0.7 * 3.0 = 2.0999999999999996), so a depth equal to the decimal value
\* compares greater; for every other whole-millimetre diameter from -21 to 21
\* the comparison agrees with the decimal one.  0.5 * diameter, diameter and
\* 2 * diameter are exact.
Below03 == {3000, 6000, 9000, 12000, 18000}
Below07 == {3000, 6000, 7000, 11000, 12000, 14000, 17000, 19000}

\* depth_of_cut <= (tenths / 10) * diameter as the float comparison decides it
LeProduct(depth_of_cut, tenths, diameter, below) ==
    \/ 10 * depth_of_cut < tenths * diameter
    \/ 10 * depth_of_cut = tenths * diameter /\ diameter \notin below

\* percent, or 0 for None
calculate_overlap(diameter, depth_of_cut) ==
    IF LeProduct(depth_of_cut, 3, diameter, Below03) THEN 100
    ELSE IF LeProduct(depth_of_cut, 5, diameter, {}) THEN 70
    ELSE IF LeProduct(depth_of_cut, 7, diameter, Below07) THEN 50
    ELSE IF depth_of_cut <= diameter THEN 30
    ELSE IF depth_of_cut <= 2 * diameter THEN 10
    ELSE 0

\* math.pi as the fraction PiNum / PiDen (3.1415929...)
PiNum == 355
PiDen == 113

Abs(x) == IF x < 0 THEN 0 - x ELSE x
Sgn(x) == IF x < 0 THEN 0 - 1 ELSE 1

\* k further decimal digits of a quotient whose integer part is q, rest r
RECURSIVE LongDiv(_, _, _, _)
LongDiv(q, r, b, k) ==
    IF k = 0 THEN q
    ELSE LongDiv(10 * q + (10 * r) \div b, (10 * r) % b, b, k - 1)

\* n = (1000 * recommended_speed) / (math.pi * diameter), diameter # 0
spindle_speed(speed, diameter) ==
    LET a == speed * PiDen
        b == PiNum * Abs(diameter)
    IN Sgn(diameter) * LongDiv(a \div b, a % b, b, 6)

\* a value (thousandths) printed with a precision of `unit` thousandths
Rounded(x, unit) == Sgn(x) * ((Abs(x) + unit \div 2) \div unit)

\* a feed per minute taken from the spindle speed as it is printed
feed_per_minute_of_printed(feed, n) == feed * Rounded(n, 1000)

\* feed_per_minute = recommended_feed * n
feed_per_minute(feed, n) ==
    Sgn(n) * (feed * (Abs(n) \div Scale) + (feed * (Abs(n) % Scale)) \div Scale)

\* The catalog feeds whose mean ends in 5 thousandths are printed from their
\* binary value: (0.15 + 0.2) / 2, (0.07 + 0.1) / 2, (0.09 + 0.14) / 2 and
\* (0.15 + 0.3) / 2 lie under the decimal tie and lose the last digit.
FeedPrintedDown == {85, 115, 175, 225}

\* f"{x:.0f}", f"{x:.1f}" (in units, in tenths) and f"{feed:.2f}" (hundredths)
Format0(x) == Rounded(x, 1000)
Format1(x) == Rounded(x, 100)
Format2(x) == IF x \in FeedPrintedDown THEN x \div 10 ELSE Rounded(x, 10)

(***************************************************************************)
(* Handlers.  A handler maps the user's dictionary and the message text to *)
(* an outcome:                                                             *)
(*   kind  "to"     the handler returned the state `next`                  *)
(*         "none"   the handler returned None (the state is kept)          *)
(*         "raise"  the handler raised an exception it does not catch (the *)
(*                  state is kept and nothing is sent)                     *)
(*   ud    the dictionary as the handler left it                           *)
(*   reply what was sent: "prompt" (question of the next state),           *)
(*         "reprompt" (same question again), "not_found", "no_data",       *)
(*         "error", "result", "cancelled" or "nothing"                     *)
(*   sqrt  how math.sqrt was called                                        *)
(*   result the recommended speed, feed and depth, the spindle speed n,    *)
(*         the feed per minute, the cutting width and the overlap computed *)
(*         (0: None or not computed)                                       *)
(*   shown the value lines of the result message: line name -> number as   *)
(*         printed ("speed", "depth", "feed_rate", "width" in tenths,      *)
(*         "feed" in hundredths, "rpm" in units)                           *)
(***************************************************************************)
NoResult ==
    [speed |-> 0, feed |-> 0, depth |-> 0, n |-> 0, feed_per_minute |-> 0,
     cutting_width |-> 0, overlap |-> 0]

To(st, ud, rep) ==
    [kind |-> "to", next |-> st, ud |-> ud, reply |-> rep, sqrt |-> "none",
     result |-> NoResult, shown |-> EmptyDict]
ReturnsNone(ud) ==
    [kind |-> "none", next |-> END, ud |-> ud, reply |-> "nothing", sqrt |-> "none",
     result |-> NoResult, shown |-> EmptyDict]
Raises(ud) ==
    [kind |-> "raise", next |-> END, ud |-> ud, reply |-> "nothing", sqrt |-> "none",
     result |-> NoResult, shown |-> EmptyDict]

\* (params[q][0] + params[q][1]) / 2
Mean(range) == (range[1] + range[2]) \div 2

recommended_speed(params) == Mean(params.entry.skorost)
recommended_feed(params) == Mean(params.entry.podacha)
recommended_depth(params) ==
    IF "glubina" \in DOMAIN params.entry THEN Mean(params.entry.glubina) ELSE 0

\* the handler ends the conversation with the recommended values
Ends(ud, sq, speed, feed, depth) ==
    [kind |-> "to", next |-> END, ud |-> ud, reply |-> "result", sqrt |-> sq,
     result |-> [NoResult EXCEPT !.speed = speed, !.feed = feed, !.depth = depth],
     shown |-> EmptyDict]

\* the further values the handler computed, and the value lines it sent
Computed(r, n, fpm, cutting_width, overlap) ==
    [r EXCEPT !.result.n = n, !.result.feed_per_minute = fpm,
              !.result.cutting_width = cutting_width, !.result.overlap = overlap]
Sends(r, lines) == [r EXCEPT !.shown = lines]

\* a message whose width line is the geometric cutting width
format_result_geometric(ud, speed, feed, depth, n, fpm, cutting_width, overlap) ==
    LET l1 == Put(Put(EmptyDict, "speed", Format1(speed)), "feed", Format2(feed))
        l2 == IF fpm # 0 THEN Put(l1, "feed_rate", Format1(fpm)) ELSE l1
        l3 == IF cutting_width # 0 THEN Put(l2, "width", Format1(cutting_width)) ELSE l2
    IN IF n # 0 THEN Put(l3, "rpm", Format0(n)) ELSE l3

\* a message that prints the depth for every operation
format_result_depth_for_mills(ud, speed, feed, depth, n, fpm, cutting_width, overlap) ==
    LET l1 == Put(Put(EmptyDict, "speed", Format1(speed)), "feed", Format2(feed))
        l2 == IF fpm # 0 THEN Put(l1, "feed_rate", Format1(fpm)) ELSE l1
        l3 == IF depth # 0 THEN Put(l2, "depth", Format1(depth)) ELSE l2
    IN IF n # 0 THEN Put(l3, "rpm", Format0(n)) ELSE l3

\* a message whose feed rate line is printed whenever there is a feed
format_result_rate_on_feed(ud, speed, feed, depth, n, fpm, cutting_width, overlap) ==
    LET l1 == Put(Put(EmptyDict, "speed", Format1(speed)), "feed", Format2(feed))
        l2 == IF feed # 0 THEN Put(l1, "feed_rate", Format1(fpm)) ELSE l1
    IN IF n # 0 THEN Put(l2, "rpm", Format0(n)) ELSE l2

format_result(ud, speed, feed, depth, n, fpm, cutting_width, overlap) ==
    LET l1 == Put(Put(EmptyDict, "speed", Format1(speed)), "feed", Format2(feed))
        l2 == IF fpm # 0 THEN Put(l1, "feed_rate", Format1(fpm)) ELSE l1
        l3 == IF (~Has(ud, "operation") \/ ud["operation"] # "frezerovanie") /\ depth # 0
              THEN Put(l2, "depth", Format1(depth)) ELSE l2
        l4 == IF overlap # 0 /\ TruthyNum(ud, "diameter")
              THEN Put(l3, "width", Format1((overlap * ud["diameter"]) \div 100))
              ELSE l3
    IN IF n # 0 THEN Put(l4, "rpm", Format0(n)) ELSE l4

\* the separate messages of the radius and groove width handlers
insert_lines(speed, feed, depth) ==
    LET l1 == Put(Put(EmptyDict, "speed", Format1(speed)), "feed", Format2(feed))
    IN IF depth # 0 THEN Put(l1, "depth", Format1(depth)) ELSE l1

\* a restart that keeps the dictionary
start_keeps(ud) == To(MATERIAL, ud, "prompt")

start(ud) == To(MATERIAL, EmptyDict, "prompt")

cancel(ud) == To(END, ud, "cancelled")

material(ud, text) ==
    LET m == Lower(text)
        ud1 == Put(ud, "material", m)
    IN IF m = "/start" THEN start(ud)
       ELSE IF m \in DOMAIN cutting_parameters
       THEN To(OPERATION, ud1, "prompt")
       ELSE To(END, ud1, "not_found")

operation(ud, text) ==
    LET o == Lower(text)
        ud1 == Put(ud, "operation", o)
    IN IF o = "/start" THEN start(ud)
       ELSE IF ~Has(ud1, "material") \/ ud1["material"] \notin DOMAIN cutting_parameters
       THEN Raises(ud1)
       ELSE IF o \in DOMAIN cutting_parameters[ud1["material"]]
       THEN To(TOOL_TYPE, ud1, "prompt")
       ELSE To(END, ud1, "not_found")

\* a tool type handler that asks every drill for a subtype
tool_type_asks_subtype(ud, text) ==
    LET t == Lower(text)
        ud1 == Put(ud, "tool_type", t)
    IN IF t = "/start" THEN To(MATERIAL, EmptyDict, "prompt")
       ELSE IF ~Has(ud1, "material") \/ ~Has(ud1, "operation") THEN Raises(ud1)
       ELSE
         LET m == ud1["material"]
             o == ud1["operation"]
         IN IF m \notin DOMAIN cutting_parameters
               \/ o \notin DOMAIN cutting_parameters[m]
            THEN Raises(ud1)
            ELSE IF t \in DOMAIN cutting_parameters[m][o]
            THEN CASE o = "frezerovanie" ->
                        IF t = "monolitnaya" \/ t = "s_plastinami"
                        THEN To(TOOL_SUBTYPE, ud1, "prompt")
                        ELSE ReturnsNone(ud1)
                   [] o = "tochenie" ->
                        IF t = "kanavochnyj" THEN To(GROOVE_WIDTH, ud1, "prompt")
                        ELSE IF t = "prohodnoj" THEN To(RADIUS, ud1, "prompt")
                        ELSE ReturnsNone(ud1)
                   [] o = "sverlenie" -> To(TOOL_SUBTYPE, ud1, "prompt")
                   [] OTHER -> ReturnsNone(ud1)
            ELSE To(END, ud1, "not_found")

tool_type(ud, text) ==
    LET t == Lower(text)
        ud1 == Put(ud, "tool_type", t)
    IN IF t = "/start" THEN start(ud)
       ELSE IF ~Has(ud1, "material") \/ ~Has(ud1, "operation") THEN Raises(ud1)
       ELSE
         LET m == ud1["material"]
             o == ud1["operation"]
         IN IF m \notin DOMAIN cutting_parameters
               \/ o \notin DOMAIN cutting_parameters[m]
            THEN Raises(ud1)
            ELSE IF t \in DOMAIN cutting_parameters[m][o]
            THEN CASE o = "frezerovanie" ->
                        IF t = "monolitnaya" \/ t = "s_plastinami"
                        THEN To(TOOL_SUBTYPE, ud1, "prompt")
                        ELSE ReturnsNone(ud1)
                   [] o = "tochenie" ->
                        IF t = "kanavochnyj" THEN To(GROOVE_WIDTH, ud1, "prompt")
                        ELSE IF t = "prohodnoj" THEN To(RADIUS, ud1, "prompt")
                        ELSE ReturnsNone(ud1)
                   [] o = "sverlenie" ->
                        IF t = "monolitnoe" THEN To(TOOL_SUBTYPE, ud1, "prompt")
                        ELSE To(DIAMETER, ud1, "prompt")
                   [] OTHER -> ReturnsNone(ud1)
            ELSE To(END, ud1, "not_found")

tool_subtype(ud, text) ==
    LET s == Lower(text)
        ud1 == Put(ud, "tool_subtype", s)
    IN IF s = "/start" THEN start(ud)
       ELSE IF ~Has(ud1, "operation") THEN Raises(ud1)
       ELSE IF ud1["operation"] = "frezerovanie" THEN To(DIAMETER, ud1, "prompt")
       ELSE IF ud1["operation"] = "sverlenie" THEN To(DIAMETER, ud1, "prompt")
       ELSE To(END, ud1, "error")

diameter(ud, text) ==
    LET f == Float(Replace(text, ",", "."))
        ud1 == Put(ud, "diameter", f.v)
    IN IF ~f.ok THEN To(DIAMETER, ud, "reprompt")
       ELSE IF ~Has(ud1, "operation") THEN Raises(ud1)
       ELSE IF ud1["operation"] = "frezerovanie" THEN To(NUMBER_OF_TEETH, ud1, "prompt")
       ELSE IF ud1["operation"] = "sverlenie"
       THEN IF ~get_cutting_parameters(ud1).found THEN To(END, ud1, "no_data")
            ELSE IF f.v = 0 THEN Raises(ud1)
            ELSE LET params == get_cutting_parameters(ud1)
                     speed == recommended_speed(params)
                     feed == recommended_feed(params)
                     n == spindle_speed(speed, f.v)
                     fpm == feed_per_minute(feed, n)
                 IN Sends(Computed(Ends(ud1, "none", speed, feed, 0), n, fpm, 0, 0),
                          format_result(ud1, speed, feed, 0, n, fpm, 0, 0))
       ELSE To(DEPTH_OF_CUT, ud1, "prompt")

\* a tooth count handler that gives up on a bad number
number_of_teeth_gives_up(ud, text) ==
    LET n == Int_(text)
    IN IF ~n.ok THEN To(END, ud, "not_found")
       ELSE To(DEPTH_OF_CUT, Put(ud, "number_of_teeth", n.v), "prompt")

number_of_teeth(ud, text) ==
    LET n == Int_(text)
    IN IF ~n.ok THEN To(NUMBER_OF_TEETH, ud, "reprompt")
       ELSE To(DEPTH_OF_CUT, Put(ud, "number_of_teeth", n.v), "prompt")

\* a depth handler that takes the feed as a feed per tooth
depth_of_cut_per_tooth(ud, text) ==
    LET f == Float(Replace(text, ",", "."))
        ud1 == Put(ud, "depth_of_cut", f.v)
        params == get_cutting_parameters(ud1)
        has_diameter == TruthyNum(ud1, "diameter")
        w == IF has_diameter /\ TruthyStr(ud1, "tool_subtype")
             THEN calculate_cutting_width(ud1["diameter"], f.v, ud1["tool_subtype"])
             ELSE [raises |-> FALSE, sqrt |-> "none", defined |-> FALSE, v |-> 0]
        overlap == IF has_diameter THEN calculate_overlap(ud1["diameter"], f.v) ELSE 0
        speed == recommended_speed(params)
        feed == recommended_feed(params)
        depth == recommended_depth(params)
        n == IF has_diameter THEN spindle_speed(speed, ud1["diameter"]) ELSE 0
        z == IF Has(ud1, "number_of_teeth") THEN ud1["number_of_teeth"] ELSE 1
        fpm == IF n # 0 THEN z * feed_per_minute(feed, n) ELSE 0
    IN IF ~f.ok THEN To(DEPTH_OF_CUT, ud, "reprompt")
       ELSE IF ~params.found THEN To(END, ud1, "no_data")
       ELSE IF w.raises
       THEN [To(DEPTH_OF_CUT, ud1, "reprompt") EXCEPT !.sqrt = w.sqrt]
       ELSE Sends(Computed(Ends(ud1, w.sqrt, speed, feed, depth),
                           n, fpm, w.v, overlap),
                  format_result(ud1, speed, feed, depth, n, fpm, w.v, overlap))

depth_of_cut(ud, text) ==
    LET f == Float(Replace(text, ",", "."))
        ud1 == Put(ud, "depth_of_cut", f.v)
        params == get_cutting_parameters(ud1)
        has_diameter == TruthyNum(ud1, "diameter")
        w == IF has_diameter /\ TruthyStr(ud1, "tool_subtype")
             THEN calculate_cutting_width(ud1["diameter"], f.v, ud1["tool_subtype"])
             ELSE [raises |-> FALSE, sqrt |-> "none", defined |-> FALSE, v |-> 0]
        overlap == IF has_diameter THEN calculate_overlap(ud1["diameter"], f.v) ELSE 0
        speed == recommended_speed(params)
        feed == recommended_feed(params)
        depth == recommended_depth(params)
        n == IF has_diameter THEN spindle_speed(speed, ud1["diameter"]) ELSE 0
        fpm == IF n # 0 THEN feed_per_minute(feed, n) ELSE 0
    IN IF ~f.ok THEN To(DEPTH_OF_CUT, ud, "reprompt")
       ELSE IF ~params.found THEN To(END, ud1, "no_data")
       ELSE IF w.raises
       THEN [To(DEPTH_OF_CUT, ud1, "reprompt") EXCEPT !.sqrt = w.sqrt]
       ELSE Sends(Computed(Ends(ud1, w.sqrt, speed, feed, depth),
                           n, fpm, w.v, overlap),
                  format_result(ud1, speed, feed, depth, n, fpm, w.v, overlap))

\* a radius handler that reads the text as it is typed
radius_as_typed(ud, text) ==
    LET f == Float(text)
        ud1 == Put(ud, "radius", f.v)
        params == get_cutting_parameters(ud1)
    IN IF ~f.ok THEN To(RADIUS, ud, "reprompt")
       ELSE IF ~params.found THEN To(END, ud1, "no_data")
       ELSE Sends(Ends(ud1, "none", recommended_speed(params),
                       recommended_feed(params), recommended_depth(params)),
                  insert_lines(recommended_speed(params), recommended_feed(params),
                               recommended_depth(params)))

radius(ud, text) ==
    LET f == Float(Replace(text, ",", "."))
        ud1 == Put(ud, "radius", f.v)
        params == get_cutting_parameters(ud1)
    IN IF ~f.ok THEN To(RADIUS, ud, "reprompt")
       ELSE IF ~params.found THEN To(END, ud1, "no_data")
       ELSE Sends(Ends(ud1, "none", recommended_speed(params),
                       recommended_feed(params), recommended_depth(params)),
                  insert_lines(recommended_speed(params), recommended_feed(params),
                               recommended_depth(params)))

\* a groove width handler that asks again when the catalog has no entry
groove_width_asks_again(ud, text) ==
    LET f == Float(Replace(text, ",", "."))
        ud1 == Put(ud, "groove_width", f.v)
        params == get_cutting_parameters(ud1)
    IN IF ~f.ok THEN To(GROOVE_WIDTH, ud, "reprompt")
       ELSE IF ~params.found THEN To(GROOVE_WIDTH, ud1, "reprompt")
       ELSE Ends(ud1, "none", recommended_speed(params), recommended_feed(params), 0)

groove_width(ud, text) ==
    LET f == Float(Replace(text, ",", "."))
        ud1 == Put(ud, "groove_width", f.v)
        params == get_cutting_parameters(ud1)
    IN IF ~f.ok THEN To(GROOVE_WIDTH, ud, "reprompt")
       ELSE IF ~params.found THEN To(END, ud1, "no_data")
       ELSE Sends(Ends(ud1, "none", recommended_speed(params),
                       recommended_feed(params), 0),
                  insert_lines(recommended_speed(params), recommended_feed(params), 0))

(***************************************************************************)
(* Conversations.  The ConversationHandler of main() is built with the     *)
(* default keying: one conversation per (chat, user), while                *)
(* context.user_data is one dictionary per user.  Chat 1 is the private    *)
(* chat of user 1; chat 2 is a group with users 1 and 2.                   *)
(***************************************************************************)
Users == {1, 2}
Convs == {<<1, 1>>, <<2, 1>>, <<2, 2>>}
Main == <<1, 1>>
UserOf(c) == c[2]

\* The messages a user sends while the conversation is in state st: the
\* offered keyboard options, other catalog words, other words and numbers.
Materials == {"stal", "Stal", "cvetnoj_metall", "derevo", "tochenie"}
Operations == {"frezerovanie", "tochenie", "Sverlenie", "sverlenie", "shlifovanie", "stal"}
ToolTypes == {"monolitnaya", "s_plastinami", "prohodnoj", "kanavochnyj",
              "monolitnoe", "so_smennymi_plastinami", "Prohodnoj", "derevo"}
ToolSubtypes == {"cilindricheskaya", "sfericheskaya", "Sfericheskaya", "torcevaya",
                 "pazovaya", "hss", "hss-co", "tverdyj_splav", "karbid", "derevo"}
Diameters == {"10", "10,0", "3", "0", "-10", "0.0", "desyat", "1.0.0"}
ToothCounts == {"4", "2", "-2", "4.0", "4,0", "chetyre"}
Depths == {"2", "12", "10", "-5", "0", "0.9", "2,1", "3,5", "7.", "20", "21", "dva", "1,2,3"}
Radii == {"0.4", "0.8", "0,8", "1.2", "0.40", "0", "0.6", "0.41", "-0.4", "1", "r0.4"}
Widths == {"2", "3.0", "4,0", "0", "2.5", "5", "3.001", "-2", "tri"}
CommandTexts == {"/start", "/cancel"}

\* the messages of the runs with several conversations
MultiTexts ==
    [m |-> {"stal"}, o |-> {"frezerovanie", "tochenie"},
     t |-> {"monolitnaya", "prohodnoj", "kanavochnyj"}, s |-> {"cilindricheskaya"},
     d |-> {"10"}, n |-> {"4"}, c |-> {"2"}, r |-> {"0.4"}, w |-> {"3"}]

\* Filters.command, and the command name a CommandHandler compares
IsCommand(text) == Len(text) > 0 /\ Char(text, 1) = "/"
CommandName(text) == Lower(Tail(text))

Init ==
    /\ state = [c \in Convs |-> END]
    /\ user_data = [u \in Users |-> EmptyDict]
    /\ reply = "nothing"
    /\ sqrt_call = "none"
    /\ result = NoResult
    /\ shown = EmptyDict
    /\ last = [conv |-> Main, text |-> "", from |-> END, raised |-> FALSE]
    /\ rejects = [c \in Convs |-> 0]

\* the dispatcher runs one handler to its end and records its outcome
Apply(c, text, r) ==
    /\ r.reply = "reprompt" => rejects[c] < MaxRejects
    /\ state' = [state EXCEPT ![c] = IF r.kind = "to" THEN r.next ELSE @]
    /\ user_data' = [user_data EXCEPT ![UserOf(c)] = r.ud]
    /\ reply' = r.reply
    /\ sqrt_call' = r.sqrt
    /\ result' = r.result
    /\ shown' = r.shown
    /\ last' = [conv |-> c, text |-> text, from |-> state[c], raised |-> r.kind = "raise"]
    /\ rejects' = [rejects EXCEPT ![c] = IF r.reply = "reprompt" THEN @ + 1 ELSE 0]

\* CommandHandler('start', start): entry point, and fallback in every state
Start(c, text) ==
    /\ IsCommand(text) /\ CommandName(text) = "start"
    /\ Apply(c, text, start(user_data[UserOf(c)]))

\* CommandHandler('cancel', cancel): fallback of a running conversation
Cancel(c, text) ==
    /\ state[c] # END
    /\ IsCommand(text) /\ CommandName(text) = "cancel"
    /\ Apply(c, text, cancel(user_data[UserOf(c)]))

\* MessageHandler(Filters.text & ~Filters.command, h) of the state st
OnText(c, text, st) == state[c] = st /\ ~IsCommand(text)

Material(c, text) ==
    OnText(c, text, MATERIAL) /\ Apply(c, text, material(user_data[UserOf(c)], text))

Operation(c, text) ==
    OnText(c, text, OPERATION) /\ Apply(c, text, operation(user_data[UserOf(c)], text))

ToolType(c, text) ==
    OnText(c, text, TOOL_TYPE) /\ Apply(c, text, tool_type(user_data[UserOf(c)], text))

ToolSubtype(c, text) ==
    OnText(c, text, TOOL_SUBTYPE) /\ Apply(c, text, tool_subtype(user_data[UserOf(c)], text))

Diameter(c, text) ==
    OnText(c, text, DIAMETER) /\ Apply(c, text, diameter(user_data[UserOf(c)], text))

NumberOfTeeth(c, text) ==
    OnText(c, text, NUMBER_OF_TEETH)
    /\ Apply(c, text, number_of_teeth(user_data[UserOf(c)], text))

DepthOfCut(c, text) ==
    OnText(c, text, DEPTH_OF_CUT) /\ Apply(c, text, depth_of_cut(user_data[UserOf(c)], text))

Radius(c, text) ==
    OnText(c, text, RADIUS) /\ Apply(c, text, radius(user_data[UserOf(c)], text))

GrooveWidth(c, text) ==
    OnText(c, text, GROOVE_WIDTH) /\ Apply(c, text, groove_width(user_data[UserOf(c)], text))

\* one user in one chat
Next ==
    \/ \E text \in CommandTexts : Start(Main, text)
    \/ \E text \in CommandTexts : Cancel(Main, text)
    \/ \E text \in Materials : Material(Main, text)
    \/ \E text \in Operations : Operation(Main, text)
    \/ \E text \in ToolTypes : ToolType(Main, text)
    \/ \E text \in ToolSubtypes : ToolSubtype(Main, text)
    \/ \E text \in Diameters : Diameter(Main, text)
    \/ \E text \in ToothCounts : NumberOfTeeth(Main, text)
    \/ \E text \in Depths : DepthOfCut(Main, text)
    \/ \E text \in Radii : Radius(Main, text)
    \/ \E text \in Widths : GrooveWidth(Main, text)

Spec == Init /\ [][Next]_vars

\* the three conversations interleaved
NextMulti ==
    \/ \E c \in Convs : Start(c, "/start")
    \/ \E c \in Convs, text \in MultiTexts.m : Material(c, text)
    \/ \E c \in Convs, text \in MultiTexts.o : Operation(c, text)
    \/ \E c \in Convs, text \in MultiTexts.t : ToolType(c, text)
    \/ \E c \in Convs, text \in MultiTexts.s : ToolSubtype(c, text)
    \/ \E c \in Convs, text \in MultiTexts.d : Diameter(c, text)
    \/ \E c \in Convs, text \in MultiTexts.n : NumberOfTeeth(c, text)
    \/ \E c \in Convs, text \in MultiTexts.c : DepthOfCut(c, text)
    \/ \E c \in Convs, text \in MultiTexts.r : Radius(c, text)
    \/ \E c \in Convs, text \in MultiTexts.w : GrooveWidth(c, text)

SpecMulti == Init /\ [][NextMulti]_vars

TypeOK ==
    /\ \A c \in Convs : state[c] \in AwaitStates \cup {END}
    /\ \A c \in Convs : rejects[c] \in 0..MaxRejects

(***************************************************************************)
(* The last step, as the properties below read it                          *)
(***************************************************************************)
LastUd == user_data[UserOf(last.conv)]
LastState == state[last.conv]
LastFloat == Float(Replace(last.text, ",", "."))
LastInt == Int_(last.text)
\* the last step delivered a text message to the handler of state st
Delivered(st) == last.from = st /\ last.text # "" /\ ~IsCommand(last.text)
LastIs(k, v) == Has(LastUd, k) /\ LastUd[k] = v

\* the catalog keys offered at the prompt of state st
KeysAt(st, ud) ==
    CASE st = MATERIAL -> DOMAIN cutting_parameters
      [] st = OPERATION -> DOMAIN cutting_parameters[ud["material"]]
      [] st = TOOL_TYPE -> DOMAIN cutting_parameters[ud["material"]][ud["operation"]]
      [] st = TOOL_SUBTYPE ->
            DOMAIN cutting_parameters[ud["material"]][ud["operation"]][ud["tool_type"]]

(***************************************************************************)
(* C1.  At each of the four enum prompts (material, operation, tool type,  *)
(* tool subtype) an answer that is not a catalog key at the current path   *)
(* ends the conversation in that step with a "not found" reply.            *)
(* The tool subtype handler does not look the answer up: this fails.       *)
(***************************************************************************)
C1_UnknownEnumEnds ==
    \A st \in {MATERIAL, OPERATION, TOOL_TYPE, TOOL_SUBTYPE} :
        (Delivered(st) /\ Lower(last.text) \notin KeysAt(st, LastUd))
            => (LastState = END /\ reply = "not_found")

(***************************************************************************)
(* C2.  Every step answers with a prompt or a terminal message; no handler *)
(* ends with an exception it does not handle.  A drill diameter of zero    *)
(* divides by zero: this fails.                                            *)
(***************************************************************************)
C2_NoUnhandledFailure ==
    last.text # "" => (~last.raised /\ reply # "nothing")

(***************************************************************************)
(* C3.  After a restart, received in any state, the user's dictionary is   *)
(* empty and the conversation is in MATERIAL.                              *)
(***************************************************************************)
C3_RestartResets ==
    (IsCommand(last.text) /\ CommandName(last.text) = "start")
        => (LastState = MATERIAL /\ DOMAIN LastUd = {})

C3_Witness ==
    /\ last.text = "/start" /\ last.from = DEPTH_OF_CUT
    /\ state[Main] = MATERIAL

(***************************************************************************)
(* C4.  After a valid tool type the next state is TOOL_SUBTYPE for every   *)
(* milling tool type and for the monolithic drill, DIAMETER for the        *)
(* indexable drill, RADIUS for the profiling and GROOVE_WIDTH for the      *)
(* grooving turning tool, and nothing else.                                *)
(***************************************************************************)
C4_Expected(o, t) ==
    CASE o = "frezerovanie" -> TOOL_SUBTYPE
      [] o = "sverlenie" /\ t = "monolitnoe" -> TOOL_SUBTYPE
      [] o = "sverlenie" /\ t = "so_smennymi_plastinami" -> DIAMETER
      [] o = "tochenie" /\ t = "prohodnoj" -> RADIUS
      [] o = "tochenie" /\ t = "kanavochnyj" -> GROOVE_WIDTH
      [] OTHER -> END

C4_ToolTypeBranching ==
    (Delivered(TOOL_TYPE) /\ Lower(last.text) \in KeysAt(TOOL_TYPE, LastUd))
        => LastState = C4_Expected(LastUd["operation"], Lower(last.text))

C4_Witness ==
    /\ Delivered(TOOL_TYPE) /\ last.text = "so_smennymi_plastinami"
    /\ LastIs("operation", "sverlenie")
    /\ state[Main] = DIAMETER

(***************************************************************************)
(* C5.  After a parsed diameter a milling conversation asks the tooth      *)
(* count and then the depth of cut; a drilling conversation ends in that   *)
(* same step and never asks the depth of cut.  A drill diameter of zero    *)
(* leaves the conversation in DIAMETER (see C2): this fails.               *)
(***************************************************************************)
C5_AfterDiameter ==
    /\ (Delivered(DIAMETER) /\ LastFloat.ok /\ LastIs("operation", "frezerovanie"))
            => LastState = NUMBER_OF_TEETH
    /\ (Delivered(NUMBER_OF_TEETH) /\ LastInt.ok) => LastState = DEPTH_OF_CUT
    /\ (Delivered(DIAMETER) /\ LastFloat.ok /\ LastIs("operation", "sverlenie"))
            => LastState = END
    /\ LastIs("operation", "sverlenie") => LastState # DEPTH_OF_CUT

(***************************************************************************)
(* C6.  A text that does not parse (as a decimal number at the diameter,   *)
(* depth, radius and groove width prompts, as an integer at the tooth      *)
(* count prompt) leaves the conversation in the same state with the same   *)
(* question, however many such texts came before.                          *)
(***************************************************************************)
C6_BadNumberReprompts ==
    /\ \A st \in {DIAMETER, DEPTH_OF_CUT, RADIUS, GROOVE_WIDTH} :
          (Delivered(st) /\ ~LastFloat.ok) => (LastState = st /\ reply = "reprompt")
    /\ (Delivered(NUMBER_OF_TEETH) /\ ~LastInt.ok)
          => (LastState = NUMBER_OF_TEETH /\ reply = "reprompt")

C6_Witness ==
    /\ Delivered(NUMBER_OF_TEETH) /\ last.text = "4.0"
    /\ rejects[Main] = MaxRejects
    /\ state[Main] = NUMBER_OF_TEETH

(***************************************************************************)
(* C7.  In a ball-nose milling conversation math.sqrt is never called with *)
(* a negative argument, and a depth of cut outside [0, diameter] never     *)
(* ends in a result.  The handler calls the formula first and catches the  *)
(* ValueError of math.sqrt: this fails.                                    *)
(***************************************************************************)
C7_BallNoseDomainChecked ==
    /\ sqrt_call # "negative"
    /\ (/\ Delivered(DEPTH_OF_CUT) /\ LastFloat.ok
        /\ LastIs("operation", "frezerovanie") /\ LastIs("tool_subtype", "sfericheskaya")
        /\ Has(LastUd, "diameter")
        /\ (LastFloat.v < 0 \/ LastFloat.v > LastUd["diameter"]))
            => reply # "result"

(***************************************************************************)
(* C8.  At the radius and groove width prompts a parsed value equal to a   *)
(* catalog key (radius 0.4, 0.8, 1.2; width 2, 3, 4) gives the values of   *)
(* that key's entry; every other parsed value ends with "no data".         *)
(***************************************************************************)
C8_ExactDimensionLookup ==
    /\ (Delivered(RADIUS) /\ LastFloat.ok) =>
          IF LastFloat.v \in {400, 800, 1200}
          THEN LET e == cutting_parameters[LastUd["material"]]["tochenie"]["prohodnoj"]
                            ["radius_plastiny"][LastFloat.v]
               IN /\ reply = "result"
                  /\ result.speed = (e.skorost[1] + e.skorost[2]) \div 2
                  /\ result.feed = (e.podacha[1] + e.podacha[2]) \div 2
          ELSE reply = "no_data" /\ LastState = END
    /\ (Delivered(GROOVE_WIDTH) /\ LastFloat.ok) =>
          IF LastFloat.v \in {2000, 3000, 4000}
          THEN LET e == cutting_parameters[LastUd["material"]]["tochenie"]["kanavochnyj"]
                            ["shirina_plastiny"][LastFloat.v]
               IN /\ reply = "result"
                  /\ result.speed = (e.skorost[1] + e.skorost[2]) \div 2
                  /\ result.feed = (e.podacha[1] + e.podacha[2]) \div 2
          ELSE reply = "no_data" /\ LastState = END

C8_Witness ==
    /\ Delivered(RADIUS) /\ last.text = "0.41"
    /\ reply = "no_data"

(***************************************************************************)
(* C9.  At the radius and groove width prompts every text that parses as a *)
(* number ends the conversation in that step, with a result or with "no    *)
(* data"; a turning conversation is never in DIAMETER, NUMBER_OF_TEETH or  *)
(* DEPTH_OF_CUT.                                                           *)
(***************************************************************************)
C9_TurningEndsAtDimension ==
    /\ \A st \in {RADIUS, GROOVE_WIDTH} :
          (Delivered(st) /\ LastFloat.ok)
              => (LastState = END /\ reply \in {"result", "no_data"})
    /\ (Has(user_data[UserOf(Main)], "operation")
        /\ user_data[UserOf(Main)]["operation"] = "tochenie")
          => state[Main] \notin {DIAMETER, NUMBER_OF_TEETH, DEPTH_OF_CUT}

C9_Witness ==
    /\ Delivered(GROOVE_WIDTH) /\ last.text = "2.5"
    /\ state[Main] = END /\ reply = "no_data"

(***************************************************************************)
(* C10.  A step of one conversation leaves the state and the session       *)
(* dictionary of every other running conversation unchanged.  The          *)
(* dictionary belongs to the user, not to the conversation, so two         *)
(* conversations of one user in two chats write the same one: this fails.  *)
(***************************************************************************)
C10_ConversationsIndependent ==
    [][\A c \in Convs :
          (c # last'.conv /\ state[c] # END)
              => (/\ state'[c] = state[c]
                  /\ user_data'[UserOf(c)] = user_data[UserOf(c)])]_vars

\* What does hold of the interleaved runs: a step leaves the state of every
\* other conversation, and the dictionary of every other user, unchanged.
OtherUsersUntouched ==
    [][\A c \in Convs :
          /\ c # last'.conv => state'[c] = state[c]
          /\ UserOf(c) # UserOf(last'.conv)
                => user_data'[UserOf(c)] = user_data[UserOf(c)]]_vars

(***************************************************************************)
(* C11.  For a diameter D > 0 and a depth of cut d the overlap percent of  *)
(* a milling result is 100 if d <= 0.3 D, else 70 if d <= 0.5 D, else 50   *)
(* if d <= 0.7 D, else 30 if d <= D, else 10 if d <= 2 D, else undefined,  *)
(* each threshold belonging to the lower band.  The thresholds 0.3 D and   *)
(* 0.7 D are float products: for D = 3 the depth 0.9 gets 70: this fails.  *)
(***************************************************************************)
C11_Band(D, d) ==
    IF 10 * d <= 3 * D THEN 100
    ELSE IF 10 * d <= 5 * D THEN 70
    ELSE IF 10 * d <= 7 * D THEN 50
    ELSE IF d <= D THEN 30
    ELSE IF d <= 2 * D THEN 10
    ELSE 0

C11_OverlapBands ==
    (/\ Delivered(DEPTH_OF_CUT) /\ reply = "result"
     /\ Has(LastUd, "diameter") /\ LastUd["diameter"] > 0)
        => result.overlap = C11_Band(LastUd["diameter"], LastUd["depth_of_cut"])

\* on the diameter of the stated examples the bands are as stated
C11_BandsAtTen ==
    (/\ Delivered(DEPTH_OF_CUT) /\ reply = "result" /\ LastIs("diameter", 10000))
        => result.overlap = C11_Band(10000, LastUd["depth_of_cut"])

(***************************************************************************)
(* C12.  A drilling conversation on a catalog path with a positive         *)
(* diameter D ends with a result: speed and feed are the means of the      *)
(* entry's ranges, the spindle speed is 1000 * speed / (pi * D), the feed  *)
(* rate is feed * spindle speed, and the message has no depth line.        *)
(***************************************************************************)
C12_Case ==
    /\ Delivered(DIAMETER) /\ LastIs("operation", "sverlenie")
    /\ LastFloat.ok /\ LastFloat.v > 0
    /\ get_cutting_parameters(LastUd).found

C12_Example ==
    /\ C12_Case
    /\ LastIs("material", "stal") /\ LastIs("tool_type", "monolitnoe")
    /\ LastIs("tool_subtype", "tverdyj_splav") /\ LastIs("diameter", 10000)

C12_General ==
    C12_Case =>
        LET entry == get_cutting_parameters(LastUd).entry
            D == LastUd["diameter"]
            \* printed spindle speed times diameter in mm: about 1000 * speed / pi
            turns == (shown["rpm"] * D) \div 1000
        IN /\ LastState = END /\ reply = "result"
           /\ 2 * result.speed = entry.skorost[1] + entry.skorost[2]
           /\ 2 * result.feed = entry.podacha[1] + entry.podacha[2]
           /\ result.n = spindle_speed(result.speed, D)
           /\ 313 * turns < 100 * result.speed /\ 100 * result.speed < 316 * turns
           /\ result.feed_per_minute = feed_per_minute(result.feed, result.n)
           /\ DOMAIN shown = {"speed", "feed", "feed_rate", "rpm"}
           /\ shown["speed"] = Format1(result.speed)
           /\ shown["feed"] = Format2(result.feed)
           /\ shown["rpm"] = Format0(result.n)
           /\ shown["feed_rate"] = Format1(result.feed_per_minute)

\* as stated: steel / drilling / monolithic / carbide / D = 10 shows speed 85.0,
\* feed 0.15, RPM 2706 and feed rate 405.9.  The feed rate printed is 405.8
\* (0.15 * 2705.63 = 405.845): this fails.
C12_AsStated ==
    /\ C12_General
    /\ C12_Example =>
          /\ shown["speed"] = 850 /\ shown["feed"] = 15
          /\ shown["rpm"] = 2706 /\ shown["feed_rate"] = 4059

\* C12 amended: the same, with the feed rate 405.8 in the example.
C12_DrillingResult ==
    /\ C12_General
    /\ C12_Example =>
          /\ shown["speed"] = 850 /\ shown["feed"] = 15
          /\ shown["rpm"] = 2706 /\ shown["feed_rate"] = 4058

C12_Witness ==
    /\ C12_Example /\ reply = "result" /\ LastState = END
    /\ shown["feed_rate"] = 4058

(***************************************************************************)
(* C13.  A result shows the spindle speed (RPM) and the feed rate only     *)
(* when a diameter was collected since the restart; the radius and groove  *)
(* width handlers of turning neither compute nor show them; the feed rate  *)
(* is never shown without the spindle speed.                               *)
(***************************************************************************)
C13_RpmNeedsDiameter ==
    /\ ({"rpm", "feed_rate"} \cap DOMAIN shown # {})
          => (Has(LastUd, "diameter") /\ last.from \in {DIAMETER, DEPTH_OF_CUT})
    /\ (result.n # 0 \/ result.feed_per_minute # 0) => TruthyNum(LastUd, "diameter")
    /\ (last.from \in {RADIUS, GROOVE_WIDTH} \/ ~Has(LastUd, "diameter"))
          => (/\ result.n = 0 /\ result.feed_per_minute = 0
              /\ {"rpm", "feed_rate"} \cap DOMAIN shown = {})
    /\ "feed_rate" \in DOMAIN shown => "rpm" \in DOMAIN shown

\* a milling result without a spindle speed (diameter 0), with its two lines
C13_ZeroDiameterCase ==
    /\ Delivered(DEPTH_OF_CUT) /\ reply = "result" /\ LastIs("diameter", 0)
    /\ DOMAIN shown = {"speed", "feed"}

\* a turning result: no spindle speed, no feed rate
C13_Witness ==
    /\ Delivered(RADIUS) /\ reply = "result" /\ "speed" \in DOMAIN shown
    /\ "rpm" \notin DOMAIN shown

(***************************************************************************)
(* C14.  Every result message shows the recommended speed (one decimal)    *)
(* and the recommended feed (two decimals); a depth line appears only when *)
(* the operation is not milling and the catalog entry has a depth range,   *)
(* so never in a milling result and never in a grooving result.            *)
(***************************************************************************)
C14_ResultLines ==
    reply = "result" =>
        LET entry == get_cutting_parameters(LastUd).entry
        IN /\ LastState = END
           /\ {"speed", "feed"} \subseteq DOMAIN shown
           /\ 2 * result.speed = entry.skorost[1] + entry.skorost[2]
           /\ shown["speed"] = Format1(result.speed)
           /\ shown["feed"] = Format2(result.feed)
           /\ "depth" \in DOMAIN shown =>
                 /\ ~LastIs("operation", "frezerovanie")
                 /\ "glubina" \in DOMAIN entry
                 /\ 2 * result.depth = entry.glubina[1] + entry.glubina[2]
                 /\ shown["depth"] = Format1(result.depth)
           /\ LastIs("operation", "frezerovanie") => "depth" \notin DOMAIN shown
           /\ last.from = GROOVE_WIDTH => "depth" \notin DOMAIN shown

\* a milling result whose catalog entry has a depth range, shown without it
C14_Witness ==
    /\ reply = "result" /\ LastIs("operation", "frezerovanie")
    /\ result.depth # 0 /\ {"speed", "feed"} \subseteq DOMAIN shown
    /\ "depth" \notin DOMAIN shown

\* a turning result with its depth line: 2.0 mm for steel, radius 0.8
C14_DepthShown ==
    /\ Delivered(RADIUS) /\ reply = "result" /\ "depth" \in DOMAIN shown

(***************************************************************************)
(* C15.  At every numeric prompt an answer written with ',' as the decimal *)
(* separator is treated as the same answer written with '.': the step      *)
(* stores the same field value, moves to the same state and sends the same *)
(* reply and result.                                                       *)
(***************************************************************************)
NumericStates == {DIAMETER, NUMBER_OF_TEETH, DEPTH_OF_CUT, RADIUS, GROOVE_WIDTH}

C15_Handler(st, ud, text) ==
    CASE st = DIAMETER -> diameter(ud, text)
      [] st = NUMBER_OF_TEETH -> number_of_teeth(ud, text)
      [] st = DEPTH_OF_CUT -> depth_of_cut(ud, text)
      [] st = RADIUS -> radius(ud, text)
      [] st = GROOVE_WIDTH -> groove_width(ud, text)

C15_HasComma(text) == Replace(text, ",", ".") # text

C15_CommaAsDot ==
    [][(/\ last'.from \in NumericStates /\ ~IsCommand(last'.text)
        /\ C15_HasComma(last'.text))
          => LET c == last'.conv
                 r == C15_Handler(last'.from, user_data[UserOf(c)],
                                  Replace(last'.text, ",", "."))
             IN /\ state'[c] = IF r.kind = "to" THEN r.next ELSE state[c]
                /\ user_data'[UserOf(c)] = r.ud
                /\ reply' = r.reply /\ result' = r.result /\ shown' = r.shown
                /\ last'.raised = (r.kind = "raise")]_vars

\* "0,8" at the radius prompt is stored as 0.8 and gets the catalog's result
C15_Witness ==
    /\ Delivered(RADIUS) /\ last.text = "0,8" /\ LastIs("radius", 800)
    /\ reply = "result" /\ LastState = END

(***************************************************************************)
(* C16.  When a conversation reaches a terminal state (a result, a "not    *)
(* found" or a "no data" outcome) its session dictionary is cleared: in    *)
(* every terminal state the dictionary holds no field.  Only start clears  *)
(* the dictionary; the handlers that end a conversation leave it as it is: *)
(* this fails.                                                             *)
(***************************************************************************)
C16_TerminalCleared ==
    (/\ last.text # "" /\ LastState = END
     /\ reply \in {"result", "not_found", "no_data", "error"})
        => DOMAIN LastUd = {}

(***************************************************************************)
(* C17.  Between two restarts no field of the session dictionary is        *)
(* assigned a second time: every step other than a restart leaves the      *)
(* value of every field that is present unchanged.  The depth handler      *)
(* stores the depth before the ball-nose formula fails, and the diameter   *)
(* handler stores the diameter before the division by zero, so the next    *)
(* answer overwrites the field: this fails.                                *)
(***************************************************************************)
C17_IsRestart(text) == IsCommand(text) /\ CommandName(text) = "start"

C17_NoFieldOverwritten ==
    [][~C17_IsRestart(last'.text)
          => \A u \in Users : \A k \in DOMAIN user_data[u] :
                /\ k \in DOMAIN user_data'[u]
                /\ user_data'[u][k] = user_data[u][k]]_vars

\* What does hold: no field is ever removed, and the only fields overwritten
\* are the diameter, by an answer at the diameter prompt, and the depth of
\* cut, by an answer at the depth prompt (the prompts a failed step stays at
\* after storing its answer).
OverwriteOnlyAtFailedPrompt ==
    [][~C17_IsRestart(last'.text)
          => \A u \in Users : \A k \in DOMAIN user_data[u] :
                /\ k \in DOMAIN user_data'[u]
                /\ user_data'[u][k] # user_data[u][k]
                      => \/ k = "diameter" /\ last'.from = DIAMETER
                         \/ k = "depth_of_cut" /\ last'.from = DEPTH_OF_CUT]_vars

(***************************************************************************)
(* C18.  In every non-terminal state the session dictionary holds exactly  *)
(* the fields of the states already completed on the path: the fields the  *)
(* current handler reads are present, and no field of the current or of a  *)
(* later state is.  After a failed step that had stored its answer (the    *)
(* division by a zero diameter, math.sqrt of a negative number) the        *)
(* conversation waits at a prompt whose field is already set: this fails.  *)
(***************************************************************************)
C18_Path == {"material", "operation", "tool_type"}

\* the sets of fields that may be complete when the conversation is in state st
C18_Completed(st) ==
    CASE st = MATERIAL -> {{}}
      [] st = OPERATION -> {{"material"}}
      [] st = TOOL_TYPE -> {{"material", "operation"}}
      [] st = TOOL_SUBTYPE -> {C18_Path}
      [] st = DIAMETER -> {C18_Path, C18_Path \cup {"tool_subtype"}}
      [] st = NUMBER_OF_TEETH -> {C18_Path \cup {"tool_subtype", "diameter"}}
      [] st = DEPTH_OF_CUT ->
            {C18_Path \cup {"tool_subtype", "diameter", "number_of_teeth"}}
      [] st \in {RADIUS, GROOVE_WIDTH} -> {C18_Path}

C18_FieldsInOrder ==
    state[Main] \in AwaitStates
        => DOMAIN user_data[UserOf(Main)] \in C18_Completed(state[Main])

\* What does hold: the completed fields are always present, and the only
\* further field is the one of the current prompt, at the diameter and the
\* depth prompt.
FieldsInOrderButOwn ==
    state[Main] \in AwaitStates
        => LET own == CASE state[Main] = DIAMETER -> {"diameter"}
                        [] state[Main] = DEPTH_OF_CUT -> {"depth_of_cut"}
                        [] OTHER -> {}
           IN \E done \in C18_Completed(state[Main]) :
                 /\ done \subseteq DOMAIN user_data[UserOf(Main)]
                 /\ DOMAIN user_data[UserOf(Main)] \subseteq done \cup own

(***************************************************************************)
(* C19.  In a milling result the cutting width line is present exactly     *)
(* when the overlap percent is defined and the diameter is not zero; the   *)
(* value shown is percent * diameter / 100, and the geometric cutting      *)
(* width (0.5 D or the ball-nose formula) does not enter it.               *)
(***************************************************************************)
C19_Case ==
    /\ Delivered(DEPTH_OF_CUT) /\ reply = "result"
    /\ LastIs("operation", "frezerovanie")

\* the line is percent * diameter / 100 whatever the geometric width is
C19_Value ==
    LET D == LastUd["diameter"]
    IN /\ "width" \in DOMAIN shown =>
             /\ result.overlap \in {10, 30, 50, 70, 100}
             /\ 100 * shown["width"] = result.overlap * (D \div 100)
       /\ \A w \in {0, 1, D \div 2, result.cutting_width} :
             format_result(LastUd, result.speed, result.feed, result.depth, result.n,
                           result.feed_per_minute, w, result.overlap) = shown

\* as stated: the percent is defined exactly when depth <= 2 * diameter.
\* A negative diameter is accepted, and every depth <= 0.3 * diameter then
\* gets 100 percent although it is greater than 2 * diameter: this fails.
C19_AsStated ==
    C19_Case =>
        LET D == LastUd["diameter"]
            d == LastUd["depth_of_cut"]
        IN /\ "width" \in DOMAIN shown <=> (D # 0 /\ d <= 2 * D)
           /\ C19_Value

\* C19 amended: the percent is defined for a positive diameter when
\* depth <= 2 * diameter, for a negative one when depth <= 0.3 * diameter.
C19_WidthLine ==
    C19_Case =>
        LET D == LastUd["diameter"]
            d == LastUd["depth_of_cut"]
        IN /\ "width" \in DOMAIN shown <=>
                 \/ D > 0 /\ d <= 2 * D
                 \/ D < 0 /\ 10 * d <= 3 * D
           /\ "width" \in DOMAIN shown <=> (result.overlap # 0 /\ D # 0)
           /\ C19_Value

\* diameter 10, depth 2, cylindrical: 100 percent, line 10.0, geometric 5.0
C19_Witness ==
    /\ C19_Case /\ LastIs("diameter", 10000) /\ LastIs("depth_of_cut", 2000)
    /\ "width" \in DOMAIN shown /\ shown["width"] = 100
    /\ result.cutting_width = 5000

\* diameter -10, depth -5: the line is present and reads -10.0
C19_NegativeDiameter ==
    /\ C19_Case /\ LastIs("diameter", 0 - 10000) /\ LastIs("depth_of_cut", 0 - 5000)
    /\ "width" \in DOMAIN shown /\ shown["width"] = 0 - 100

(***************************************************************************)
(* C20.  If every answer at a prompt with buttons (material, operation,    *)
(* tool type, tool subtype, insert radius) is one of the offered strings   *)
(* and every typed number is positive, with depth of cut <= diameter, the  *)
(* conversation never ends with "not found" or "failed to get parameters"  *)
(* and ends with a result; every radius button parses back to its key.     *)
(***************************************************************************)
\* the answers stored so far were offered ones (the dictionary keeps every
\* answer up to the end of the conversation), the numbers are positive
C20_Offered(ud) ==
    /\ Has(ud, "material") /\ ud["material"] \in DOMAIN cutting_parameters
    /\ Has(ud, "operation") =>
          ud["operation"] \in DOMAIN cutting_parameters[ud["material"]]
    /\ Has(ud, "tool_type") =>
          ud["tool_type"]
              \in DOMAIN cutting_parameters[ud["material"]][ud["operation"]]
    /\ Has(ud, "tool_subtype") =>
          ud["tool_subtype"] \in DOMAIN
              cutting_parameters[ud["material"]][ud["operation"]][ud["tool_type"]]
    /\ last.from = RADIUS =>
          last.text \in radius_keyboard(ud["material"], ud["operation"], ud["tool_type"])
    /\ Has(ud, "diameter") => ud["diameter"] > 0
    /\ Has(ud, "number_of_teeth") => ud["number_of_teeth"] > 0
    /\ Has(ud, "depth_of_cut") =>
          (ud["depth_of_cut"] > 0 /\ ud["depth_of_cut"] <= ud["diameter"])

C20_Succeeds ==
    /\ reply \notin {"not_found", "no_data", "error"}
    /\ ~last.raised
    /\ LastState = END => reply = "result"

\* every radius button parses back to the catalog key it was made from
C20_ButtonsParseBack ==
    \A m \in DOMAIN cutting_parameters :
        LET keys == DOMAIN cutting_parameters[m]["tochenie"]["prohodnoj"]["radius_plastiny"]
        IN \A k \in keys :
              /\ Float(Replace(FloatStr(k), ",", ".")) = [ok |-> TRUE, v |-> k]
              /\ FloatStr(k) \in radius_keyboard(m, "tochenie", "prohodnoj")

C20_Step == last.from \in AwaitStates /\ ~IsCommand(last.text)

\* as stated: the groove width is a typed number, any positive one.  The
\* groove width is looked up as a catalog key, and a positive width that is
\* no key (5, 2.5) ends with "failed to get parameters": this fails.
C20_AsStated ==
    /\ C20_ButtonsParseBack
    /\ (/\ C20_Step /\ C20_Offered(LastUd)
        /\ Has(LastUd, "groove_width") => LastUd["groove_width"] > 0)
          => C20_Succeeds

\* C20 amended: the groove width typed is one of the catalog's widths.
C20_OfferedAnswersSucceed ==
    /\ C20_ButtonsParseBack
    /\ (/\ C20_Step /\ C20_Offered(LastUd)
        /\ Has(LastUd, "groove_width") =>
              LastUd["groove_width"] \in DOMAIN
                  cutting_parameters[LastUd["material"]]["tochenie"]["kanavochnyj"]["shirina_plastiny"])
          => C20_Succeeds

\* the button "1.2" of the radius keyboard ends with the result of key 1.2
C20_Witness ==
    /\ Delivered(RADIUS) /\ last.text = "1.2" /\ C20_Offered(LastUd)
    /\ LastIs("radius", 1200) /\ LastState = END /\ reply = "result"

\* a catalog groove width, typed: the result of that key
C20_GrooveKey ==
    /\ Delivered(GROOVE_WIDTH) /\ C20_Offered(LastUd) /\ LastIs("groove_width", 3000)
    /\ LastState = END /\ reply = "result"

(***************************************************************************)
(* C21.  Every step other than a restart or a re-prompt of the same state  *)
(* moves the conversation to a strictly later state in the order           *)
(* Material < Operation < ToolType < ToolSubtype < Diameter / Radius /     *)
(* GrooveWidth < ToothCount < DepthOfCut < Terminal, so that no state is   *)
(* re-entered from a later one.  A drill diameter of zero ends the step    *)
(* with an exception: nothing is sent and the state is kept: this fails.   *)
(***************************************************************************)
C21_Rank(st) ==
    CASE st = MATERIAL -> 0
      [] st = OPERATION -> 1
      [] st = TOOL_TYPE -> 2
      [] st = TOOL_SUBTYPE -> 3
      [] st \in {DIAMETER, RADIUS, GROOVE_WIDTH} -> 4
      [] st = NUMBER_OF_TEETH -> 5
      [] st = DEPTH_OF_CUT -> 6
      [] st = END -> 7

C21_IsRestart(text) == IsCommand(text) /\ CommandName(text) = "start"

C21_SameStateReprompt == reply' = "reprompt" /\ state'[last'.conv] = state[last'.conv]

C21_StrictlyLater ==
    [][(~C21_IsRestart(last'.text) /\ ~C21_SameStateReprompt)
          => C21_Rank(state'[last'.conv]) > C21_Rank(state[last'.conv])]_vars

\* What does hold: no step other than a restart goes back, and every step
\* that is neither a restart nor a re-prompt and does not raise goes forward.
NeverBackForwardUnlessRaised ==
    [][~C21_IsRestart(last'.text)
          => /\ C21_Rank(state'[last'.conv]) >= C21_Rank(state[last'.conv])
             /\ (~C21_SameStateReprompt /\ ~last'.raised)
                   => C21_Rank(state'[last'.conv]) > C21_Rank(state[last'.conv])]_vars

(***************************************************************************)
(* C22.  The result of a milling conversation does not depend on the tooth *)
(* count: the step at the depth prompt gives the same state, reply, speed, *)
(* feed, spindle speed, feed rate, cutting width and message lines as it   *)
(* would with any other tooth count stored.                                *)
(***************************************************************************)
C22_Counts == {1, 2, 4, 6}

\* the outcome of the step just taken, as the handler's outcome record (the
\* depth handler always returns a state)
C22_Outcome(c) ==
    [kind |-> "to", next |-> state'[c], ud |-> user_data'[UserOf(c)],
     reply |-> reply', sqrt |-> sqrt_call', result |-> result', shown |-> shown']

C22_ToothCountIrrelevant ==
    [][(/\ last'.from = DEPTH_OF_CUT /\ ~IsCommand(last'.text)
        /\ Has(user_data[UserOf(last'.conv)], "number_of_teeth"))
          => \A z \in C22_Counts :
                LET c == last'.conv
                    ud == user_data[UserOf(c)]
                    r == depth_of_cut(Put(ud, "number_of_teeth", z), last'.text)
                IN [r EXCEPT !.ud = Put(@, "number_of_teeth", ud["number_of_teeth"])]
                      = C22_Outcome(c)]_vars

\* a milling result after the tooth count 2, with spindle speed and feed rate
C22_Witness ==
    /\ Delivered(DEPTH_OF_CUT) /\ reply = "result"
    /\ LastIs("operation", "frezerovanie") /\ LastIs("number_of_teeth", 2)
    /\ LastIs("diameter", 10000) /\ {"rpm", "feed_rate", "width"} \subseteq DOMAIN shown

\* the same answers after the tooth count 4
C22_OtherCount ==
    /\ Delivered(DEPTH_OF_CUT) /\ reply = "result"
    /\ LastIs("operation", "frezerovanie") /\ LastIs("number_of_teeth", 4)
    /\ LastIs("diameter", 10000) /\ {"rpm", "feed_rate", "width"} \subseteq DOMAIN shown

====
